---------------------------- MODULE Spec2Model ----------------------------
(***************************************************************************)
(* Model of the logic-number validation engine                             *)
(* (src/logic_number_validator/validate_logic_number.py).                  *)
(*                                                                         *)
(* A Python string is a sequence of characters; a character is a one-token *)
(* TLA+ string.  ASCII characters stand for themselves; the tokens "LF"    *)
(* (line feed, U+000A), "U+0663" (ARABIC-INDIC DIGIT THREE), "U+00C9" and  *)
(* "U+00E9" (LATIN E WITH ACUTE, capital and small) stand for the          *)
(* characters they name.  A literal chunk of an f-string or of an          *)
(* exception text is kept as one token of the message sequence.            *)
(***************************************************************************)
EXTENDS Integers, Sequences, FiniteSets, TLC

VARIABLES pc, data, result, norm

vars == <<pc, data, result, norm>>

---------------------------------------------------------------------------
(* Character classes *)

AsciiDigit == {"0","1","2","3","4","5","6","7","8","9"}

AsciiLowerSeq ==
    <<"a","b","c","d","e","f","g","h","i","j","k","l","m",
      "n","o","p","q","r","s","t","u","v","w","x","y","z">>

AsciiUpperSeq ==
    <<"A","B","C","D","E","F","G","H","I","J","K","L","M",
      "N","O","P","Q","R","S","T","U","V","W","X","Y","Z">>

\* Cased characters known to the model, paired position by position.
LowerSeq == AsciiLowerSeq \o <<"U+00E9">>

UpperSeq == AsciiUpperSeq \o <<"U+00C9">>

Range(f) == {f[i] : i \in DOMAIN f}

AsciiAlnum == Range(AsciiLowerSeq) \cup Range(AsciiUpperSeq) \cup AsciiDigit

\* re's \d on a str pattern: every Unicode decimal digit, not only 0-9.
ClassDigit == AsciiDigit \cup {"U+0663"}

\* re's [a-zA-Z0-9].
ClassAlnum == AsciiAlnum

---------------------------------------------------------------------------
(* Python values: a str, an int, None, or a key missing from the dict *)

PyStr(s) == [t |-> "str", s |-> s, n |-> 0]

PyInt(n) == [t |-> "int", s |-> <<>>, n |-> n]

PyNone == [t |-> "none", s |-> <<>>, n |-> 0]

Absent == [t |-> "absent", s |-> <<>>, n |-> 0]

\* dict.get(key): the value, or None when the key is missing.
dict_get(v) == IF v.t = "absent" THEN PyNone ELSE v

\* Python truthiness, as `not x` tests it.
truthy(v) ==
    CASE v.t = "str" -> Len(v.s) > 0
      [] v.t = "int" -> v.n # 0
      [] OTHER -> FALSE

\* str.lower(), character by character.
lower_char(c) ==
    IF \E i \in DOMAIN UpperSeq : UpperSeq[i] = c
    THEN LowerSeq[CHOOSE i \in DOMAIN UpperSeq : UpperSeq[i] = c]
    ELSE c

str_lower_id(s) == s

str_lower(s) == [i \in 1..Len(s) |-> lower_char(s[i])]

\* str.upper(), character by character.
upper_char(c) ==
    IF \E i \in DOMAIN LowerSeq : LowerSeq[i] = c
    THEN UpperSeq[CHOOSE i \in DOMAIN LowerSeq : LowerSeq[i] = c]
    ELSE c

str_upper(s) == [i \in 1..Len(s) |-> upper_char(s[i])]

Rep(c, n) == [i \in 1..n |-> c]

PadWidth == 15

zfill_right(s, width) ==
    IF Len(s) >= width THEN s ELSE s \o Rep("0", width - Len(s))

\* str.zfill(width): zeros on the left, after a leading sign; never truncates.
zfill(s, width) ==
    IF Len(s) >= width THEN s
    ELSE IF Len(s) > 0 /\ s[1] \in {"+", "-"}
         THEN <<s[1]>> \o Rep("0", width - Len(s)) \o Tail(s)
         ELSE Rep("0", width - Len(s)) \o s

---------------------------------------------------------------------------
(* Regular expressions: a pattern is a sequence of atoms, each a class     *)
(* repeated n times; every pattern of the engine is "^" atoms "$".         *)

Lit(c) == [cls |-> "lit", lit |-> c, n |-> 1]

Digits(n) == [cls |-> "digit", lit |-> "", n |-> n]

Alnums(n) == [cls |-> "alnum", lit |-> "", n |-> n]

RECURSIVE Expand(_)
Expand(pat) ==
    IF pat = <<>> THEN <<>>
    ELSE Rep(Head(pat), Head(pat).n) \o Expand(Tail(pat))

InClass(c, atom) ==
    CASE atom.cls = "lit" -> c = atom.lit
      [] atom.cls = "digit" -> c \in ClassDigit
      [] atom.cls = "alnum" -> c \in ClassAlnum

\* re.match(r"^...$", v): "TypeError" when v is not a str; "$" matches at
\* the end of the string and also just before a final line feed.
re_match(pat, v) ==
    IF v.t # "str" THEN "TypeError"
    ELSE LET e == Expand(pat)
             s == v.s
         IN IF /\ Len(s) >= Len(e)
               /\ \A i \in 1..Len(e) : InClass(s[i], e[i])
               /\ \/ Len(s) = Len(e)
                  \/ Len(s) = Len(e) + 1 /\ s[Len(s)] = "LF"
            THEN "match" ELSE "nomatch"

\* `re.match(p1, x) and re.match(p2, y)`: the right side is evaluated only
\* when the left side matched.
match_and(m1, m2) ==
    IF m1 = "match" THEN m2 ELSE m1

PatDigits15 == <<Digits(15)>>

PatCodeTF_9 == <<Lit("T"), Lit("F"), Alnums(9)>>

PatCodeTF == <<Lit("T"), Lit("F"), Alnums(8)>>

PatCielo == <<Lit("4"), Digits(7)>>

PatStoneLogic == <<Alnums(32)>>

PatStoneCode == <<Digits(9)>>

PatVeroLogic == <<Lit("0"), Lit("4"), Digits(13)>>

PatVeroCode == <<Digits(11)>>

---------------------------------------------------------------------------
(* Acquirer names *)

valid_adquirences_policard ==
    { <<"b","i","n">>, <<"g","e","t","n","e","t","l","a","c">>,
      <<"s","a","f","r","a">>, <<"s","i","p","a","g">>,
      <<"s","t","o","n","e">>, <<"v","e","r","o">>,
      <<"a","d","i","q">>, <<"b","i","g","c","a","r","d">>, <<"b","i","z">>,
      <<"b","r","a","s","i","l"," ","c","a","r","d">>,
      <<"c","a","b","a","l">>, <<"c","a","r","d","s","e">>,
      <<"c","a","r","t","o">>, <<"c","o","m","p","r","o","c","a","r","d">>,
      <<"c","o","n","v","c","a","r","d">>,
      <<"c","r","e","d","i","s","h","o","p">>,
      <<"c","t","f"," ","f","r","o","t","a">>,
      <<"f","i","t","c","a","r","d">>,
      <<"g","l","o","b","a","l","p","a","y","m","e","n","t","s">>,
      <<"m","a","r","k","e","t","p","a","y">>,
      <<"m","e","t","t","a","c","a","r","d">>,
      <<"o","r","g","c","a","r","d">>,
      <<"p","o","r","t","a","l","c","a","r","d">>, <<"r","e","d","e">>,
      <<"r","e","s","o","m","a","q">>, <<"s","o","f","t","n","e","x">>,
      <<"t","e","l","e","n","e","t">>, <<"v","a","l","e","c","a","r","d">>,
      <<"v","a","l","e","s","h","o","p">>, <<"c","i","e","l","o">>,
      <<"p","o","l","i","c","a","r","d">> }

valid_adquirences ==
    { <<"b","i","n">>, <<"g","e","t","n","e","t","l","a","c">>,
      <<"s","a","f","r","a">>, <<"s","i","p","a","g">>,
      <<"s","t","o","n","e">>, <<"v","e","r","o">>,
      <<"a","d","i","q">>, <<"b","i","g","c","a","r","d">>, <<"b","i","z">>,
      <<"b","r","a","s","i","l"," ","c","a","r","d">>,
      <<"c","a","b","a","l">>, <<"c","a","r","d","s","e">>,
      <<"c","a","r","t","o">>, <<"c","o","m","p","r","o","c","a","r","d">>,
      <<"c","o","n","v","c","a","r","d">>,
      <<"c","r","e","d","i","s","h","o","p">>,
      <<"c","t","f"," ","f","r","o","t","a">>,
      <<"f","i","t","c","a","r","d">>,
      <<"g","l","o","b","a","l","p","a","y","m","e","n","t","s">>,
      <<"m","a","r","k","e","t","p","a","y">>,
      <<"m","e","t","t","a","c","a","r","d">>,
      <<"o","r","g","c","a","r","d">>,
      <<"p","o","r","t","a","l","c","a","r","d">>, <<"r","e","d","e">>,
      <<"r","e","s","o","m","a","q">>, <<"s","o","f","t","n","e","x">>,
      <<"t","e","l","e","n","e","t">>, <<"v","a","l","e","c","a","r","d">>,
      <<"v","a","l","e","s","h","o","p">>, <<"c","i","e","l","o">> }

\* The first case of validate_logic_number's match: logic number only.
CaseDigits15 ==
    { <<"a","d","i","q">>, <<"b","i","g","c","a","r","d">>, <<"b","i","z">>,
      <<"b","r","a","s","i","l"," ","c","a","r","d">>,
      <<"c","a","b","a","l">>, <<"c","a","r","d","s","e">>,
      <<"c","a","r","t","o">>, <<"c","o","m","p","r","o","c","a","r","d">>,
      <<"c","o","n","v","c","a","r","d">>,
      <<"c","r","e","d","i","s","h","o","p">>,
      <<"c","t","f"," ","f","r","o","t","a">>,
      <<"f","i","t","c","a","r","d">>,
      <<"g","l","o","b","a","l","p","a","y","m","e","n","t","s">>,
      <<"m","a","r","k","e","t","p","a","y">>,
      <<"m","e","t","t","a","c","a","r","d">>,
      <<"o","r","g","c","a","r","d">>,
      <<"p","o","r","t","a","l","c","a","r","d">>, <<"r","e","d","e">>,
      <<"r","e","s","o","m","a","q">>, <<"s","o","f","t","n","e","x">>,
      <<"t","e","l","e","n","e","t">>, <<"v","a","l","e","c","a","r","d">>,
      <<"v","a","l","e","s","h","o","p">> }

\* The second case: logic number and "TF" code.
CaseTF ==
    { <<"b","i","n">>, <<"g","e","t","n","e","t","l","a","c">>,
      <<"s","a","f","r","a">>, <<"s","i","p","a","g">> }

Cielo == <<"c","i","e","l","o">>

Stone == <<"s","t","o","n","e">>

Vero == <<"v","e","r","o">>

\* The case of process_data's match that pads.
CasePadded ==
    { <<"b","i","n">>, <<"f","i","t","c","a","r","d">>,
      <<"g","e","t","n","e","t","l","a","c">>,
      <<"p","o","l","i","c","a","r","d">>, <<"s","a","f","r","a">>,
      <<"s","i","p","a","g">>, <<"s","i","s","c","r","e","d">>,
      <<"s","o","f","t","n","e","x">>, <<"v","a","l","e","s","h","o","p">> }

---------------------------------------------------------------------------
(* handle_data *)

HTuple(a, l, c) ==
    [kind |-> "tuple", adquirence |-> a, logic_number |-> l, code |-> c,
     msg |-> <<>>]

HStr(m) ==
    [kind |-> "str", adquirence |-> <<>>, logic_number |-> PyNone,
     code |-> PyNone, msg |-> m]

HRaise(m) ==
    [kind |-> "AttributeError", adquirence |-> <<>>, logic_number |-> PyNone,
     code |-> PyNone, msg |-> m]

\* A variant that tests membership before the presence of the other fields.
handle_data_member_first(d) ==
    LET adquirence == dict_get(d.adquirente)
        logic_number == dict_get(d.logico)
        code == dict_get(d.codigo)
    IN IF ~truthy(adquirence) THEN HStr(<<"Authorizer not provided.">>)
       ELSE IF adquirence.t # "str"
       THEN HRaise(<<"'int' object has no attribute 'lower'">>)
       ELSE IF str_lower(adquirence.s) \notin valid_adquirences
       THEN HStr(<<"unsupported adquirence type">>)
       ELSE IF ~truthy(logic_number)
       THEN HStr(<<"Logical number not provided.">>)
       ELSE IF ~truthy(code) THEN HStr(<<"Code not provided">>)
       ELSE HTuple(str_lower(adquirence.s), logic_number, code)

\* A variant that leaves the membership test to the dispatch.
handle_data_no_member(d) ==
    LET adquirence == dict_get(d.adquirente)
        logic_number == dict_get(d.logico)
        code == dict_get(d.codigo)
    IN IF ~truthy(adquirence) THEN HStr(<<"Authorizer not provided.">>)
       ELSE IF ~truthy(logic_number)
       THEN HStr(<<"Logical number not provided.">>)
       ELSE IF ~truthy(code) THEN HStr(<<"Code not provided">>)
       ELSE IF adquirence.t # "str"
       THEN HRaise(<<"'int' object has no attribute 'lower'">>)
       ELSE HTuple(str_lower(adquirence.s), logic_number, code)

handle_data(d) ==
    LET adquirence == dict_get(d.adquirente)
        logic_number == dict_get(d.logico)
        code == dict_get(d.codigo)
    IN IF ~truthy(adquirence) THEN HStr(<<"Authorizer not provided.">>)
       ELSE IF ~truthy(logic_number)
       THEN HStr(<<"Logical number not provided.">>)
       ELSE IF ~truthy(code) THEN HStr(<<"Code not provided">>)
       ELSE IF adquirence.t # "str"
       THEN HRaise(<<"'int' object has no attribute 'lower'">>)
       ELSE LET adquirence_lower == str_lower(adquirence.s)
            IN IF adquirence_lower \in valid_adquirences
               THEN HTuple(adquirence_lower, logic_number, code)
               ELSE HStr(<<"unsupported adquirence type">>)

---------------------------------------------------------------------------
(* process_data *)

PRaise == [kind |-> "AttributeError", value |-> PyNone]

PValue(v) == [kind |-> "value", value |-> v]

process_data_right(adquirence, logic_number) ==
    IF adquirence \in CasePadded
    THEN IF logic_number.t = "str"
         THEN PValue(PyStr(zfill_right(logic_number.s, PadWidth)))
         ELSE PRaise
    ELSE PValue(logic_number)

\* logic_number.zfill(15) for the padded case (AttributeError when the
\* value has no zfill), the value itself otherwise.
process_data(adquirence, logic_number) ==
    IF adquirence \in CasePadded
    THEN IF logic_number.t = "str"
         THEN PValue(PyStr(zfill(logic_number.s, PadWidth)))
         ELSE PRaise
    ELSE PValue(logic_number)

---------------------------------------------------------------------------
(* validate_logic_number *)

Outcome(tag, msg) == [tag |-> tag, msg |-> msg]

\* The function ran off its end: Python returns None.
ReturnsNone == Outcome("None", <<>>)

Pending == Outcome("pending", <<>>)

TypeErrorOutcome ==
    Outcome("Error", <<"Invalide param: ",
                       "expected string or bytes-like object, got 'int'">>)

SuccessLogic(adquirence, logic_number) ==
    Outcome("Success",
            adquirence \o <<" processed with logic number ">> \o logic_number.s)

SuccessLogicCode(adquirence, logic_number, code) ==
    Outcome("Success",
            adquirence \o <<" processed with logic number ">> \o logic_number.s
                       \o <<" and code ">> \o code.s)

FailurePattern(adquirence) ==
    Outcome("Failure",
            str_upper(adquirence) \o <<" does not match with the pattern">>)

\* The match statement of validate_logic_number, on the values handle_data
\* and process_data produced.
dispatch(adquirence, logic_number, code) ==
    IF adquirence \in CaseDigits15 THEN
        LET m == re_match(PatDigits15, logic_number)
        IN CASE m = "match" -> SuccessLogic(adquirence, logic_number)
             [] m = "nomatch" -> ReturnsNone
             [] OTHER -> TypeErrorOutcome
    ELSE IF adquirence \in CaseTF THEN
        LET m == match_and(re_match(PatDigits15, logic_number),
                           re_match(PatCodeTF, code))
        IN CASE m = "match" -> SuccessLogicCode(adquirence, logic_number, code)
             [] m = "nomatch" -> FailurePattern(adquirence)
             [] OTHER -> TypeErrorOutcome
    ELSE IF adquirence = Cielo THEN
        LET m == re_match(PatCielo, logic_number)
        IN CASE m = "match" -> SuccessLogic(adquirence, logic_number)
             [] m = "nomatch" -> FailurePattern(adquirence)
             [] OTHER -> TypeErrorOutcome
    ELSE IF adquirence = Stone THEN
        LET m == match_and(re_match(PatStoneLogic, logic_number),
                           re_match(PatStoneCode, code))
        IN CASE m = "match" -> SuccessLogicCode(adquirence, logic_number, code)
             [] m = "nomatch" -> FailurePattern(adquirence)
             [] OTHER -> TypeErrorOutcome
    ELSE IF adquirence = Vero THEN
        LET m == match_and(re_match(PatVeroLogic, logic_number),
                           re_match(PatVeroCode, code))
        IN CASE m = "match" -> SuccessLogicCode(adquirence, logic_number, code)
             [] m = "nomatch" -> FailurePattern(adquirence)
             [] OTHER -> TypeErrorOutcome
    ELSE Outcome("Error", <<"Unsupported adquirence type">>)

validate_logic_number(d) ==
    IF d.t # "dict"
    THEN Outcome("Error", <<"Invalide param: ",
                            "The argument must be a JSON dictionary.">>)
    ELSE LET h == handle_data(d)
         IN IF h.kind = "AttributeError"
            THEN Outcome("Error", <<"Generic error: ">> \o h.msg)
            ELSE IF h.kind = "str" THEN Outcome("Error", h.msg)
            ELSE LET p == process_data(h.adquirence, h.logic_number)
                 IN IF p.kind = "AttributeError"
                    THEN Outcome("Error",
                                 <<"Generic error: ",
                                   "'int' object has no attribute 'zfill'">>)
                    ELSE dispatch(h.adquirence, p.value, h.code)

---------------------------------------------------------------------------
(* Inputs *)

\* Longest run of one repeated character in a generated logic number.
MaxRun == 33

\* Longest digit string given to process_data on its own.
MaxNormLen == 17

Josias == <<"j","o","s","i","a","s">>

Foobar == <<"f","o","o","b","a","r">>

Policard == <<"p","o","l","i","c","a","r","d">>

\* Every name the source mentions, and one it does not.
KnownNames ==
    CaseDigits15 \cup CaseTF \cup {Cielo, Stone, Vero} \cup CasePadded
        \cup {Josias, Foobar}

Capitalized(s) == IF s = <<>> THEN s ELSE <<upper_char(s[1])>> \o Tail(s)

AcquirerStrings ==
    KnownNames \cup {str_upper(a) : a \in KnownNames}
               \cup {Capitalized(a) : a \in KnownNames}

AcquirerFields ==
    {PyStr(a) : a \in AcquirerStrings}
        \cup {Absent, PyNone, PyStr(<<>>), PyInt(0), PyInt(7)}

RunLens == 0..MaxRun

Suffixes == {<<>>, <<"LF">>}

LogicFull ==
    {p \o Rep(f, n) \o x :
        p \in {<<>>, <<"4">>, <<"0","4">>}, f \in {"1", "a"},
        n \in RunLens, x \in Suffixes}

LogicOdd ==
    { <<"+">> \o Rep("1", 3), <<"+">> \o Rep("1", 14),
      <<"-">> \o Rep("1", 14), Rep("U+0663", 15),
      <<"4">> \o Rep("U+0663", 7), <<"0","4">> \o Rep("U+0663", 13),
      Rep("1", 14) \o <<" ">>, <<" ">> \o Rep("1", 14),
      <<"LF">> \o Rep("1", 15), Rep("U+00E9", 32) }

LogicSmall ==
    { Rep("1", 15), <<"0","4">> \o Rep("1", 13), <<"4">> \o Rep("1", 7),
      Rep("a", 32), Rep("1", 3) }

CodeFull ==
    {p \o Rep(f, n) \o x :
        p \in {<<>>, <<"T","F">>, <<"t","f">>}, f \in {"1", "a"},
        n \in 7..12, x \in Suffixes}

CodeOdd ==
    { Rep("U+0663", 9), Rep("U+0663", 11), <<"T","F">> \o Rep("U+00E9", 8),
      <<"T","F">> \o Rep("1", 7) \o <<" ">> }

CodeSmall ==
    { <<"T","F">> \o Rep("a", 8), Rep("1", 9), Rep("1", 11), <<"x">> }

OtherFields == {Absent, PyNone, PyStr(<<>>), PyInt(0), PyInt(7)}

Record(a, l, c) == [t |-> "dict", adquirente |-> a, logico |-> l, codigo |-> c]

NotARecord(t) == [t |-> t, adquirente |-> Absent, logico |-> Absent, codigo |-> Absent]

\* Records that vary the presence, the type and the letter case of fields.
PresenceInputs ==
    {Record(a, l, c) :
        a \in AcquirerFields,
        l \in {PyStr(s) : s \in LogicSmall} \cup OtherFields,
        c \in {PyStr(s) : s \in CodeSmall} \cup OtherFields}

\* Records that vary the content of the logic number and of the code.
PatternInputs ==
    {Record(PyStr(a), PyStr(lc[1]), PyStr(lc[2])) :
        a \in KnownNames,
        lc \in ((LogicFull \cup LogicOdd) \X CodeSmall)
                 \cup (LogicSmall \X (CodeFull \cup CodeOdd))}

NonRecordInputs == {NotARecord(t) : t \in {"int", "none", "str", "list"}}

Inputs == PresenceInputs \cup PatternInputs \cup NonRecordInputs

NormNames == KnownNames \cup {str_upper(a) : a \in CasePadded}

NormStrings ==
    {Rep(f, n) : f \in {"0", "1", "U+0663"}, n \in 0..MaxNormLen}
        \cup {<<"4">> \o Rep("9", n) : n \in 0..MaxNormLen}
        \cup {<<s>> \o Rep("1", n) : s \in {"+", "-", "a"}, n \in {0, 3, 14, 15}}

---------------------------------------------------------------------------
(* The engine as a state machine: one call of validate_logic_number *)

NoData == NotARecord("none")

NoNorm == [adquirence |-> <<>>, logic_number |-> <<>>, outs |-> <<>>]

Init ==
    /\ pc = "ready"
    /\ data \in Inputs
    /\ result = Pending
    /\ norm = NoNorm

Validate ==
    /\ pc = "ready"
    /\ result' = validate_logic_number(data)
    /\ pc' = "returned"
    /\ UNCHANGED <<data, norm>>

Next == Validate

Spec == Init /\ [][Next]_vars

(* process_data on its own, applied to its own result a second time *)

InitNorm ==
    /\ pc = "norm"
    /\ data = NoData
    /\ result = Pending
    /\ norm \in {[adquirence |-> a, logic_number |-> l, outs |-> <<>>] :
                    a \in NormNames, l \in NormStrings}

ProcessData ==
    /\ pc = "norm"
    /\ Len(norm.outs) < 2
    /\ LET arg == IF norm.outs = <<>> THEN norm.logic_number
                  ELSE norm.outs[Len(norm.outs)]
       IN norm' = [norm EXCEPT
                     !.outs = Append(@, process_data(norm.adquirence,
                                                     PyStr(arg)).value.s)]
    /\ UNCHANGED <<pc, data, result>>

NextNorm == ProcessData

SpecNorm == InitNorm /\ [][NextNorm]_vars

---------------------------------------------------------------------------
(* Vocabulary of the properties, stated on the characters themselves *)

Returned == pc = "returned"

IsRecord == data.t = "dict"

\* A field is missing when it is absent or falsy (None, "", 0).
Missing(v) ==
    \/ v.t \in {"absent", "none"}
    \/ v.t = "str" /\ v.s = <<>>
    \/ v.t = "int" /\ v.n = 0

AllPresent ==
    /\ IsRecord
    /\ ~Missing(data.adquirente) /\ ~Missing(data.logico) /\ ~Missing(data.codigo)

AllStrings ==
    /\ AllPresent
    /\ data.adquirente.t = "str" /\ data.logico.t = "str" /\ data.codigo.t = "str"

AllIn(s, S) == \A i \in 1..Len(s) : s[i] \in S

AsciiDigits(s, n) == Len(s) = n /\ AllIn(s, AsciiDigit)

AsciiAlnums(s, n) == Len(s) = n /\ AllIn(s, AsciiAlnum)

Zeros(n) == [i \in 1..n |-> "0"]

\* The logic number left-padded with zeros to 15 characters.
ZeroPadded(s) == IF Len(s) < 15 THEN Zeros(15 - Len(s)) \o s ELSE s

IsTFCode(c) ==
    /\ Len(c) = 10 /\ c[1] = "T" /\ c[2] = "F"
    /\ AllIn(SubSeq(c, 3, 10), AsciiAlnum)

IsCieloNumber(s) ==
    Len(s) = 8 /\ s[1] = "4" /\ AllIn(SubSeq(s, 2, 8), AsciiDigit)

\* A decimal digit of any script.
AnyDigit == AsciiDigit \cup {"U+0663"}

\* "4" and 7 digits of any script: 8 characters in all.
IsFourAndSevenDigits(s) ==
    Len(s) = 8 /\ s[1] = "4" /\ AllIn(SubSeq(s, 2, 8), AnyDigit)

IsVeroNumber(s) ==
    /\ Len(s) = 15 /\ s[1] = "0" /\ s[2] = "4"
    /\ AllIn(SubSeq(s, 3, 15), AsciiDigit)

\* The acquirer of the record, lowercased.
Acquirer == str_lower(data.adquirente.s)

\* The logic number as the engine normalizes it for the record's acquirer.
Normalized == process_data(Acquirer, data.logico).value.s

ErrorOutcome(text) == Outcome("Error", <<text>>)

SameUpToCase(s, u) ==
    /\ Len(s) = Len(u)
    /\ \A i \in 1..Len(s) :
          \/ s[i] = u[i]
          \/ \E k \in DOMAIN UpperSeq :
                {s[i], u[i]} = {UpperSeq[k], LowerSeq[k]}

\* The rule of the acquirer group on the normalized logic number and the
\* code, over ASCII classes and the whole strings.
RuleHolds(name, logic, code) ==
    CASE name \in CaseDigits15 -> AsciiDigits(logic, 15)
      [] name \in CaseTF -> AsciiDigits(logic, 15) /\ IsTFCode(code)
      [] name = Cielo -> IsCieloNumber(logic)
      [] name = Stone -> AsciiAlnums(logic, 32) /\ AsciiDigits(code, 9)
      [] name = Vero -> IsVeroNumber(logic) /\ AsciiDigits(code, 11)
      [] OTHER -> FALSE

---------------------------------------------------------------------------
(* Properties *)

\* C1: every call returns an outcome that carries exactly one of the tags
\* Success, Failure, Error, Info and a message; never an empty result.
C1_AlwaysTagged ==
    Returned =>
        /\ result.tag \in {"Success", "Failure", "Error", "Info"}
        /\ result.msg # <<>>

\* C2: for an acquirer of the 15-digit-only group and a record with all
\* three fields present (strings), the outcome is Success when the
\* normalized logic number is exactly 15 digits (of any script), whatever
\* the code, and Failure when it is not.
C2_Digits15Group ==
    (Returned /\ AllStrings /\ Acquirer \in CaseDigits15) =>
        IF Len(Normalized) = 15 /\ AllIn(Normalized, AnyDigit)
        THEN result.tag = "Success"
        ELSE result.tag = "Failure"

\* C3: for the two-field acquirers, over logic numbers and codes made of
\* ASCII letters and digits, the outcome is Success, echoing the normalized
\* logic number and the code, exactly when both fields match the acquirer's
\* rule, and Failure "<ACQUIRER> does not match with the pattern" otherwise.
C3_TwoFieldRules ==
    (/\ Returned /\ AllStrings
     /\ Acquirer \in CaseTF \cup {Stone, Vero}
     /\ AllIn(data.logico.s, AsciiAlnum) /\ AllIn(data.codigo.s, AsciiAlnum)) =>
        LET logic == IF Acquirer \in CaseTF THEN ZeroPadded(data.logico.s)
                     ELSE data.logico.s
            code == data.codigo.s
        IN result =
             IF RuleHolds(Acquirer, logic, code)
             THEN Outcome("Success",
                          Acquirer \o <<" processed with logic number ">>
                            \o logic \o <<" and code ">> \o code)
             ELSE Outcome("Failure",
                          str_upper(Acquirer)
                            \o <<" does not match with the pattern">>)

\* A padded logic number and a "TF" code accepted for bin.
C3_Witness ==
    /\ Returned /\ AllStrings
    /\ Acquirer = <<"b","i","n">>
    /\ Len(data.logico.s) < 15
    /\ AllIn(data.logico.s, AsciiAlnum) /\ AllIn(data.codigo.s, AsciiAlnum)
    /\ result.tag = "Success"

\* C4: presence is decided in the order acquirer, logic number, code, before
\* membership and patterns: the first missing field names the Error.
C4_PresenceOrder ==
    (Returned /\ IsRecord) =>
        IF Missing(data.adquirente)
        THEN result = ErrorOutcome("Authorizer not provided.")
        ELSE IF Missing(data.logico)
        THEN result = ErrorOutcome("Logical number not provided.")
        ELSE IF Missing(data.codigo)
        THEN result = ErrorOutcome("Code not provided")
        ELSE TRUE

\* An unsupported acquirer with a missing logic number is reported as the
\* missing logic number.
C4_Witness ==
    /\ Returned /\ IsRecord
    /\ data.adquirente = PyStr(Foobar)
    /\ data.logico = Absent
    /\ ~Missing(data.codigo)
    /\ result = ErrorOutcome("Logical number not provided.")

\* C5 (as stated): a record whose acquirer, lowercased, is not in the
\* supported set gives Error "unsupported adquirence type" for every content
\* of the logic number and the code, empty and absent included.
C5_UnsupportedWhateverFields ==
    (/\ Returned /\ IsRecord
     /\ data.adquirente.t = "str" /\ data.adquirente.s # <<>>
     /\ Acquirer \notin valid_adquirences) =>
        result = ErrorOutcome("unsupported adquirence type")

\* C5 (amended): a record whose acquirer is a non-empty string that,
\* lowercased, is not in the supported set, and whose logic number and code
\* are both present and non-empty, gives Error "unsupported adquirence type".
C5_UnsupportedWhenPresent ==
    (/\ Returned /\ AllPresent
     /\ data.adquirente.t = "str"
     /\ Acquirer \notin valid_adquirences) =>
        result = ErrorOutcome("unsupported adquirence type")

\* "FOOBAR" with a logic number and a code is reported as unsupported.
C5_Witness ==
    /\ Returned /\ AllPresent
    /\ data.adquirente = PyStr(str_upper(Foobar))
    /\ data.logico.t = "int"
    /\ result = ErrorOutcome("unsupported adquirence type")

\* C6: two records that differ only in the letter case of the acquirer get
\* the same outcome, tag and message.
C6_CaseInsensitive ==
    (Returned /\ IsRecord /\ data.adquirente.t = "str") =>
        \A a \in AcquirerStrings :
            SameUpToCase(a, data.adquirente.s) =>
                validate_logic_number([data EXCEPT !.adquirente = PyStr(a)])
                    = result

\* "VERO" in capitals accepted as vero is.
C6_Witness ==
    /\ Returned /\ IsRecord
    /\ data.adquirente = PyStr(<<"V","E","R","O">>)
    /\ result.tag = "Success"

\* C7: process_data pads a digit string shorter than 15 with zeros on the
\* left to exactly 15 for bin, fitcard, getnetlac, safra, sipag, softnex and
\* valeshop, leaves 15 or more characters unchanged, gives the same result
\* when applied twice, and leaves the logic number of an acquirer outside
\* the padding subset unchanged.
C7_Normalization ==
    (pc = "norm" /\ Len(norm.outs) >= 1) =>
        LET a == norm.adquirence
            l == norm.logic_number
        IN /\ (a \in CasePadded \cap valid_adquirences /\ AllIn(l, AsciiDigit)) =>
                 /\ Len(l) < 15 =>
                      /\ Len(norm.outs[1]) = 15
                      /\ norm.outs[1] = Zeros(15 - Len(l)) \o l
                 /\ Len(l) >= 15 => norm.outs[1] = l
                 /\ Len(norm.outs) = 2 => norm.outs[2] = norm.outs[1]
           /\ a \notin CasePadded => norm.outs[1] = l

\* A short digit string padded for sipag, and normalized a second time.
C7_Witness ==
    /\ pc = "norm" /\ Len(norm.outs) = 2
    /\ norm.adquirence = <<"s","i","p","a","g">>
    /\ norm.logic_number = <<"1","1","1">>
    /\ Len(norm.outs[1]) = 15

\* C8: Success only if the whole normalized logic number, and for two-field
\* rules the whole code, consists of exactly the ASCII digits or ASCII
\* alphanumerics the rule requires, with nothing before or after.
C8_FullAsciiMatch ==
    (Returned /\ result.tag = "Success") =>
        RuleHolds(Acquirer, Normalized, data.codigo.s)

\* C9: for cielo with all three fields present (strings) the logic number is
\* not padded, the outcome is Success exactly when it is "4" followed by
\* exactly 7 digits (of any script), and every rejection is Failure "CIELO does not match
\* with the pattern", whatever the code.
C9_CieloRule ==
    (Returned /\ AllStrings /\ Acquirer = Cielo) =>
        result =
          IF IsFourAndSevenDigits(data.logico.s)
          THEN Outcome("Success",
                       Cielo \o <<" processed with logic number ">>
                         \o data.logico.s)
          ELSE Outcome("Failure",
                       <<"C","I","E","L","O">>
                         \o <<" does not match with the pattern">>)

\* C10: the supported set and the dispatch cases cover each other: the
\* catch-all Error "Unsupported adquirence type" is never returned, and an
\* acquirer outside the dispatch cases is reported only through the
\* lowercase message of handle_data.
C10_DispatchCoversSupported ==
    Returned =>
        /\ result # ErrorOutcome("Unsupported adquirence type")
        /\ (/\ AllPresent /\ data.adquirente.t = "str"
            /\ Acquirer \notin CaseDigits15 \cup CaseTF \cup {Cielo, Stone, Vero})
              => result = ErrorOutcome("unsupported adquirence type")

\* "policard", padded by process_data but not supported, never reaches the
\* dispatch.
C10_Witness ==
    /\ Returned /\ AllStrings
    /\ Acquirer = Policard
    /\ result = ErrorOutcome("unsupported adquirence type")

=============================================================================
